---- MODULE Spec2Model ----
(***************************************************************************)
(* Model of backend/main.go: the three request handlers of the car viewer  *)
(* (homeHandler, detailsHandler, compareHandler) and the four upstream     *)
(* fetchers they call.  One handler invocation is one behaviour; the       *)
(* upstream API and the template engine are the environment: what a round  *)
(* trip returns and whether the template loads and executes are chosen     *)
(* nondeterministically.                                                   *)
(*                                                                         *)
(* Strings are sequences of one-character strings.  A Car carries the      *)
(* fields the handlers read (ID, Name, ManufacturerID, CategoryID); Year,  *)
(* Specifications and Image are only passed through to the template.       *)
(* A nil slice and an empty slice are both <<>>: the handlers only range   *)
(* over slices, append to them and take their length.                      *)
(***************************************************************************)
EXTENDS Integers, Sequences, FiniteSets, TLC

VARIABLES handler, pc, req, cars, categories, manufacturers, filteredCars,
          id, mainCar, allCars, idx, related, selectedCars,
          calls, status, body, data, tmpl

vars == <<handler, pc, req, cars, categories, manufacturers, filteredCars,
          id, mainCar, allCars, idx, related, selectedCars,
          calls, status, body, data, tmpl>>

(***************************************************************************)
(* Bounds of the model.                                                    *)
(***************************************************************************)
MaxHomeCars == 2
MaxRefList == 1
MaxCars == 5
MaxIds == 3

(***************************************************************************)
(* Program constants.                                                      *)
(***************************************************************************)
RelatedLimit == 3
MinCompareIds == 2
StatusOK == 200
StatusBadRequest == 400
StatusNotFound == 404
StatusInternalServerError == 500

(***************************************************************************)
(* strings.ToLower and strings.Contains, on sequences of characters.       *)
(***************************************************************************)
LowerChar(c) ==
    CASE c = "A" -> "a"
      [] c = "B" -> "b"
      [] c = "C" -> "c"
      [] OTHER -> c

ToLower(s) == [i \in 1..Len(s) |-> LowerChar(s[i])]

HasPrefixAt(s, substr, i) ==
    /\ i + Len(substr) - 1 <= Len(s)
    /\ \A j \in 1..Len(substr) : s[i + j - 1] = substr[j]

RECURSIVE IndexFrom(_, _, _)
IndexFrom(s, substr, i) ==
    IF i + Len(substr) - 1 > Len(s) THEN -1
    ELSE IF HasPrefixAt(s, substr, i) THEN i - 1
    ELSE IndexFrom(s, substr, i + 1)

Contains(s, substr) == IndexFrom(s, substr, 1) >= 0

(***************************************************************************)
(* strconv.Atoi on the strings of the model: an optional sign followed by  *)
(* one or more decimal digits; anything else is a syntax error and the     *)
(* value 0.  The strings of the model are far shorter than the 19 digits   *)
(* an out-of-range value needs, so the range error does not arise.         *)
(***************************************************************************)
Digits == {"0", "1", "2", "3", "4", "5", "6", "7", "8", "9"}

DigitVal(c) ==
    CASE c = "0" -> 0 [] c = "1" -> 1 [] c = "2" -> 2 [] c = "3" -> 3
      [] c = "4" -> 4 [] c = "5" -> 5 [] c = "6" -> 6 [] c = "7" -> 7
      [] c = "8" -> 8 [] c = "9" -> 9

RECURSIVE DecimalVal(_, _)
DecimalVal(s, acc) ==
    IF s = << >> THEN acc ELSE DecimalVal(Tail(s), acc * 10 + DigitVal(Head(s)))

AtoiLenient(s) ==
    LET ds == SelectSeq(s, LAMBDA c : c \in Digits)
    IN  IF ds = << >> THEN [val |-> 0, err |-> "syntax"]
        ELSE [val |-> DecimalVal(ds, 0), err |-> "nil"]

Atoi(s) ==
    LET signed == s # << >> /\ Head(s) \in {"+", "-"}
        ds == IF signed THEN Tail(s) ELSE s
    IN  IF ds = << >> \/ \E i \in 1..Len(ds) : ds[i] \notin Digits
        THEN [val |-> 0, err |-> "syntax"]
        ELSE [val |-> IF signed /\ Head(s) = "-" THEN 0 - DecimalVal(ds, 0)
                      ELSE DecimalVal(ds, 0),
              err |-> "nil"]

(***************************************************************************)
(* Data structures.                                                        *)
(***************************************************************************)
Car(i, n, m, c) == [ID |-> i, Name |-> n, ManufacturerID |-> m, CategoryID |-> c]

ZeroCar == Car(0, << >>, 0, 0)

Named(i, n) == [ID |-> i, Name |-> n]

(***************************************************************************)
(* The upstream data the model draws from.  A vehicle identifier has one   *)
(* display name; its category and manufacturer references vary.            *)
(***************************************************************************)
VehicleName(i) ==
    CASE i = 1 -> <<"A", "b">>
      [] i = 2 -> <<"c">>
      [] OTHER -> <<"x">>

RefIds == {1, 2}

HomeCars == {Car(i, VehicleName(i), m, c) : i \in {1, 2}, m \in RefIds, c \in RefIds}

DetailCars == {Car(i, VehicleName(i), 1, c) : i \in {1, 2, 3}, c \in RefIds}

UpstreamCar(i) == {Car(i, VehicleName(i), 1, c) : c \in RefIds}

UpstreamCategories == {Named(i, n) : i \in RefIds, n \in {<<"B">>, <<"d">>}}

UpstreamManufacturers == {Named(i, <<"C", "a">>) : i \in RefIds}

Queries == {<< >>, <<"b">>, <<"C">>, <<"A", "B">>}

IdStrings == {<< >>, <<"1">>, <<"2">>, <<"1", "x">>, <<"-", "2">>}

SeqsUpTo(S, n) == UNION {[1..k -> S] : k \in 0..n}

(***************************************************************************)
(* Outcomes of one upstream round trip.  fetchCars, fetchCategories and    *)
(* fetchManufacturers fail on a transport error or a decode error and do   *)
(* not look at the status; fetchCarByID also fails on a status other than  *)
(* 200.  A failed fetch returns the nil value.                             *)
(***************************************************************************)
FetchListOutcomes(lists) ==
    {[err |-> e, val |-> << >>] : e \in {"transport", "decode"}}
        \cup {[err |-> "nil", val |-> l] : l \in lists}

FetchCarOutcomes(i) ==
    {[err |-> e, val |-> ZeroCar] : e \in {"transport", "status", "decode"}}
        \cup {[err |-> "nil", val |-> c] : c \in UpstreamCar(i)}

Call(op, arg, res, car) == [op |-> op, arg |-> arg, res |-> res, car |-> car]

(***************************************************************************)
(* homeHandler: lookup maps and the search filter.                         *)
(***************************************************************************)
Put(m, k, v) == [x \in DOMAIN m \cup {k} |-> IF x = k THEN v ELSE m[x]]

RECURSIVE BuildMap(_, _)
BuildMap(list, m) ==
    IF list = << >> THEN m
    ELSE BuildMap(Tail(list), Put(m, Head(list).ID, Head(list).Name))

EmptyMap == [x \in {} |-> << >>]

Lookup(m, k) == IF k \in DOMAIN m THEN m[k] ELSE << >>

SearchMatchCaseSensitive(car, catMap, manMap, query) ==
    LET catName == ToLower(Lookup(catMap, car.CategoryID))
        manName == ToLower(Lookup(manMap, car.ManufacturerID))
    IN  \/ Contains(car.Name, query)
        \/ Contains(catName, query)
        \/ Contains(manName, query)

SearchMatch(car, catMap, manMap, query) ==
    LET catName == ToLower(Lookup(catMap, car.CategoryID))
        manName == ToLower(Lookup(manMap, car.ManufacturerID))
        carName == ToLower(car.Name)
    IN  \/ Contains(carName, query)
        \/ Contains(catName, query)
        \/ Contains(manName, query)

RECURSIVE FilterLoop(_, _, _, _, _)
FilterLoop(rest, catMap, manMap, query, acc) ==
    IF rest = << >> THEN acc
    ELSE FilterLoop(Tail(rest), catMap, manMap, query,
                    IF SearchMatch(Head(rest), catMap, manMap, query)
                    THEN Append(acc, Head(rest)) ELSE acc)

FilterCarsNoElse(list, cats, mans, q) ==
    LET catMap == BuildMap(cats, EmptyMap)
        manMap == BuildMap(mans, EmptyMap)
        query == ToLower(q)
    IN  IF query # << >>
        THEN FilterLoop(list, catMap, manMap, query, << >>)
        ELSE << >>

FilterCars(list, cats, mans, q) ==
    LET catMap == BuildMap(cats, EmptyMap)
        manMap == BuildMap(mans, EmptyMap)
        query == ToLower(q)
    IN  IF query # << >>
        THEN FilterLoop(list, catMap, manMap, query, << >>)
        ELSE list

(***************************************************************************)
(* State shared by the three handlers.  calls is the history of upstream   *)
(* round trips of the invocation: an entry is appended when http.Get is    *)
(* entered (res = "pending") and completed when it returns.  status is 0   *)
(* until a response is written; body is what the client receives; tmpl is  *)
(* the outcome of the template step once it has run.                       *)
(***************************************************************************)
InitLocals ==
    /\ pc = "start"
    /\ cars = << >> /\ categories = << >> /\ manufacturers = << >>
    /\ filteredCars = << >>
    /\ id = 0 /\ mainCar = ZeroCar /\ allCars = << >>
    /\ idx = 0 /\ related = << >> /\ selectedCars = << >>
    /\ calls = << >> /\ status = 0 /\ body = "none" /\ data = << >>
    /\ tmpl = "none"

Issue(op, arg) == calls' = Append(calls, Call(op, arg, "pending", ZeroCar))

Complete(res, car) ==
    calls' = [calls EXCEPT ![Len(calls)] = Call(@.op, @.arg, res, car)]

Pending == {i \in DOMAIN calls : calls[i].res = "pending"}

HttpError(code) == status' = code /\ body' = "error" /\ pc' = "done"

(***************************************************************************)
(* template.ParseFiles and tmpl.Execute.  A ParseFiles error is answered   *)
(* with 500.  The error of Execute is discarded: the handler returns and   *)
(* net/http sends what was written so far under the default status 200.    *)
(***************************************************************************)
TemplateOutcomes == {"parseError", "execError", "ok"}

RenderIgnoreParseError(t) ==
    /\ tmpl' = t
    /\ status' = StatusOK
    /\ body' = IF t = "ok" THEN "page" ELSE "partial"
    /\ pc' = "done"

Render(t) ==
    /\ tmpl' = t
    /\ IF t = "parseError" THEN HttpError(StatusInternalServerError)
       ELSE /\ status' = StatusOK
            /\ body' = IF t = "ok" THEN "page" ELSE "partial"
            /\ pc' = "done"

(***************************************************************************)
(* homeHandler.                                                            *)
(***************************************************************************)
HomeLocals == <<id, mainCar, allCars, idx, related, selectedCars>>

HomeNotFound ==
    /\ handler = "home" /\ pc = "start"
    /\ req.path # <<"/">>
    /\ HttpError(StatusNotFound)
    /\ UNCHANGED <<handler, tmpl, req, cars, categories, manufacturers, filteredCars,
                   calls, data, HomeLocals>>

HomeFetchCars ==
    /\ handler = "home" /\ pc = "start"
    /\ req.path = <<"/">>
    /\ Issue("fetchCars", 0)
    /\ pc' = "awaitCars"
    /\ UNCHANGED <<handler, tmpl, req, cars, categories, manufacturers, filteredCars,
                   status, body, data, HomeLocals>>

HomeCarsFetched ==
    /\ handler = "home" /\ pc = "awaitCars"
    /\ \E r \in FetchListOutcomes(SeqsUpTo(HomeCars, MaxHomeCars)) :
          /\ Complete(r.err, ZeroCar)
          /\ IF r.err # "nil"
             THEN /\ HttpError(StatusInternalServerError)
                  /\ UNCHANGED cars
             ELSE /\ cars' = r.val
                  /\ pc' = "fetchCategories"
                  /\ UNCHANGED <<status, body>>
    /\ UNCHANGED <<handler, tmpl, req, categories, manufacturers, filteredCars,
                   data, HomeLocals>>

HomeFetchCategories ==
    /\ handler = "home" /\ pc = "fetchCategories"
    /\ Issue("fetchCategories", 0)
    /\ pc' = "awaitCategories"
    /\ UNCHANGED <<handler, tmpl, req, cars, categories, manufacturers, filteredCars,
                   status, body, data, HomeLocals>>

HomeCategoriesFetchedAbort ==
    /\ handler = "home" /\ pc = "awaitCategories"
    /\ \E r \in FetchListOutcomes(SeqsUpTo(UpstreamCategories, MaxRefList)) :
          /\ Complete(r.err, ZeroCar)
          /\ IF r.err # "nil"
             THEN /\ HttpError(StatusInternalServerError)
                  /\ UNCHANGED categories
             ELSE /\ categories' = r.val
                  /\ pc' = "fetchManufacturers"
                  /\ UNCHANGED <<status, body>>
    /\ UNCHANGED <<handler, tmpl, req, cars, manufacturers, filteredCars,
                   data, HomeLocals>>

HomeCategoriesFetched ==
    /\ handler = "home" /\ pc = "awaitCategories"
    /\ \E r \in FetchListOutcomes(SeqsUpTo(UpstreamCategories, MaxRefList)) :
          /\ Complete(r.err, ZeroCar)
          /\ categories' = r.val
    /\ pc' = "fetchManufacturers"
    /\ UNCHANGED <<handler, tmpl, req, cars, manufacturers, filteredCars,
                   status, body, data, HomeLocals>>

HomeFetchManufacturers ==
    /\ handler = "home" /\ pc = "fetchManufacturers"
    /\ Issue("fetchManufacturers", 0)
    /\ pc' = "awaitManufacturers"
    /\ UNCHANGED <<handler, tmpl, req, cars, categories, manufacturers, filteredCars,
                   status, body, data, HomeLocals>>

HomeManufacturersFetched ==
    /\ handler = "home" /\ pc = "awaitManufacturers"
    /\ \E r \in FetchListOutcomes(SeqsUpTo(UpstreamManufacturers, MaxRefList)) :
          /\ Complete(r.err, ZeroCar)
          /\ manufacturers' = r.val
    /\ pc' = "filter"
    /\ UNCHANGED <<handler, tmpl, req, cars, categories, filteredCars,
                   status, body, data, HomeLocals>>

HomeFilter ==
    /\ handler = "home" /\ pc = "filter"
    /\ filteredCars' = FilterCars(cars, categories, manufacturers, req.q)
    /\ pc' = "render"
    /\ UNCHANGED <<handler, tmpl, req, cars, categories, manufacturers,
                   calls, status, body, data, HomeLocals>>

HomeRender ==
    /\ handler = "home" /\ pc = "render"
    /\ data' = [Cars |-> filteredCars, Query |-> req.q]
    /\ \E t \in TemplateOutcomes : Render(t)
    /\ UNCHANGED <<handler, req, cars, categories, manufacturers, filteredCars,
                   calls, HomeLocals>>

HomeInit ==
    /\ handler = "home"
    /\ req \in [path : {<<"/">>, <<"/", "x">>}, q : Queries]
    /\ InitLocals

HomeNext ==
    \/ HomeNotFound
    \/ HomeFetchCars
    \/ HomeCarsFetched
    \/ HomeFetchCategories
    \/ HomeCategoriesFetched
    \/ HomeFetchManufacturers
    \/ HomeManufacturersFetched
    \/ HomeFilter
    \/ HomeRender

HomeSpec == HomeInit /\ [][HomeNext]_vars

(***************************************************************************)
(* detailsHandler.                                                         *)
(***************************************************************************)
QualifiesSameCategory(c, main) == c.CategoryID = main.CategoryID

Qualifies(c, main) == c.CategoryID = main.CategoryID /\ c.ID # main.ID

ScanOne(rel, c, main) == IF Qualifies(c, main) THEN Append(rel, c) ELSE rel

LimitReachedLate(rel) == Len(rel) > RelatedLimit

LimitReached(rel) == Len(rel) >= RelatedLimit

DetailsLocals == <<cars, categories, manufacturers, filteredCars, selectedCars>>

DetailsBadRequest ==
    /\ handler = "details" /\ pc = "start"
    /\ req.id = << >> \/ Atoi(req.id).err # "nil"
    /\ HttpError(StatusBadRequest)
    /\ UNCHANGED <<handler, tmpl, req, id, mainCar, allCars, idx, related,
                   calls, data, DetailsLocals>>

DetailsFetchMain ==
    /\ handler = "details" /\ pc = "start"
    /\ req.id # << >> /\ Atoi(req.id).err = "nil"
    /\ id' = Atoi(req.id).val
    /\ Issue("fetchCarByID", id')
    /\ pc' = "awaitMain"
    /\ UNCHANGED <<handler, tmpl, req, mainCar, allCars, idx, related,
                   status, body, data, DetailsLocals>>

DetailsMainFetchedContinue ==
    /\ handler = "details" /\ pc = "awaitMain"
    /\ \E r \in FetchCarOutcomes(id) :
          /\ Complete(r.err, r.val)
          /\ mainCar' = r.val
    /\ pc' = "fetchAll"
    /\ UNCHANGED <<handler, tmpl, req, id, allCars, idx, related,
                   status, body, data, DetailsLocals>>

DetailsMainFetched ==
    /\ handler = "details" /\ pc = "awaitMain"
    /\ \E r \in FetchCarOutcomes(id) :
          /\ Complete(r.err, r.val)
          /\ IF r.err # "nil"
             THEN /\ HttpError(StatusNotFound)
                  /\ UNCHANGED mainCar
             ELSE /\ mainCar' = r.val
                  /\ pc' = "fetchAll"
                  /\ UNCHANGED <<status, body>>
    /\ UNCHANGED <<handler, tmpl, req, id, allCars, idx, related, data, DetailsLocals>>

DetailsFetchAll ==
    /\ handler = "details" /\ pc = "fetchAll"
    /\ Issue("fetchCars", 0)
    /\ pc' = "awaitAll"
    /\ UNCHANGED <<handler, tmpl, req, id, mainCar, allCars, idx, related,
                   status, body, data, DetailsLocals>>

DetailsAllFetched ==
    /\ handler = "details" /\ pc = "awaitAll"
    /\ \E r \in FetchListOutcomes(SeqsUpTo(DetailCars, MaxCars)) :
          /\ Complete(r.err, ZeroCar)
          /\ allCars' = r.val
    /\ related' = << >>
    /\ idx' = 1
    /\ pc' = "scan"
    /\ UNCHANGED <<handler, tmpl, req, id, mainCar, status, body, data, DetailsLocals>>

DetailsScan ==
    /\ handler = "details" /\ pc = "scan"
    /\ idx <= Len(allCars)
    /\ related' = ScanOne(related, allCars[idx], mainCar)
    /\ IF LimitReached(related')
       THEN pc' = "render" /\ UNCHANGED idx
       ELSE idx' = idx + 1 /\ UNCHANGED pc
    /\ UNCHANGED <<handler, tmpl, req, id, mainCar, allCars,
                   calls, status, body, data, DetailsLocals>>

DetailsScanEnd ==
    /\ handler = "details" /\ pc = "scan"
    /\ idx > Len(allCars)
    /\ pc' = "render"
    /\ UNCHANGED <<handler, tmpl, req, id, mainCar, allCars, idx, related,
                   calls, status, body, data, DetailsLocals>>

DetailsRender ==
    /\ handler = "details" /\ pc = "render"
    /\ data' = [MainCar |-> mainCar, Related |-> related]
    /\ \E t \in TemplateOutcomes : Render(t)
    /\ UNCHANGED <<handler, req, id, mainCar, allCars, idx, related,
                   calls, DetailsLocals>>

DetailsInit ==
    /\ handler = "details"
    /\ req \in [id : IdStrings]
    /\ InitLocals

DetailsNext ==
    \/ DetailsBadRequest
    \/ DetailsFetchMain
    \/ DetailsMainFetched
    \/ DetailsFetchAll
    \/ DetailsAllFetched
    \/ DetailsScan
    \/ DetailsScanEnd
    \/ DetailsRender

DetailsSpec == DetailsInit /\ [][DetailsNext]_vars

(***************************************************************************)
(* compareHandler.                                                         *)
(***************************************************************************)
TooFewIdsOffByOne(ids) == Len(ids) < MinCompareIds - 1

TooFewIds(ids) == Len(ids) < MinCompareIds

CollectAll(sel, r) == Append(sel, r.val)

Collect(sel, r) == IF r.err = "nil" THEN Append(sel, r.val) ELSE sel

CompareLocals == <<cars, categories, manufacturers, filteredCars,
                   mainCar, allCars, related>>

CompareBadRequest ==
    /\ handler = "compare" /\ pc = "start"
    /\ TooFewIds(req.ids)
    /\ HttpError(StatusBadRequest)
    /\ UNCHANGED <<handler, tmpl, req, id, idx, selectedCars, calls, data, CompareLocals>>

CompareBegin ==
    /\ handler = "compare" /\ pc = "start"
    /\ ~TooFewIds(req.ids)
    /\ selectedCars' = << >>
    /\ idx' = 1
    /\ pc' = "loop"
    /\ UNCHANGED <<handler, tmpl, req, id, calls, status, body, data, CompareLocals>>

CompareFetch ==
    /\ handler = "compare" /\ pc = "loop"
    /\ idx <= Len(req.ids)
    /\ id' = Atoi(req.ids[idx]).val
    /\ Issue("fetchCarByID", id')
    /\ pc' = "awaitCar"
    /\ UNCHANGED <<handler, tmpl, req, idx, selectedCars, status, body, data, CompareLocals>>

CompareFetched ==
    /\ handler = "compare" /\ pc = "awaitCar"
    /\ \E r \in FetchCarOutcomes(id) :
          /\ Complete(r.err, r.val)
          /\ selectedCars' = Collect(selectedCars, r)
    /\ idx' = idx + 1
    /\ pc' = "loop"
    /\ UNCHANGED <<handler, tmpl, req, id, status, body, data, CompareLocals>>

CompareRender ==
    /\ handler = "compare" /\ pc = "loop"
    /\ idx > Len(req.ids)
    /\ data' = selectedCars
    /\ \E t \in TemplateOutcomes : Render(t)
    /\ UNCHANGED <<handler, req, id, idx, selectedCars, calls, CompareLocals>>

CompareInit ==
    /\ handler = "compare"
    /\ req \in [ids : SeqsUpTo(IdStrings, MaxIds)]
    /\ InitLocals

CompareNext ==
    \/ CompareBadRequest
    \/ CompareBegin
    \/ CompareFetch
    \/ CompareFetched
    \/ CompareRender

CompareSpec == CompareInit /\ [][CompareNext]_vars

(***************************************************************************)
(* The service: one invocation of any of the three handlers.               *)
(***************************************************************************)
Init == HomeInit \/ DetailsInit \/ CompareInit

Next == HomeNext \/ DetailsNext \/ CompareNext

Spec == Init /\ [][Next]_vars

(***************************************************************************)
(* Properties.  The definitions below state what is claimed of the         *)
(* handlers, in terms of the request, the upstream round trips (calls) and *)
(* the response.                                                           *)
(***************************************************************************)
Failures == {"transport", "status", "decode"}

Min(a, b) == IF a < b THEN a ELSE b

IsSubstring(sub, s) ==
    \E i \in 0..(Len(s) - Len(sub)) : SubSeq(s, i + 1, i + Len(sub)) = sub

\* The name the last entry of list with identifier k gives, "" when none does.
Resolved(list, k) ==
    LET hits == {i \in DOMAIN list : list[i].ID = k}
    IN  IF hits = {} THEN << >>
        ELSE list[CHOOSE i \in hits : \A j \in hits : j <= i].Name

MatchesQuery(v) ==
    \/ IsSubstring(ToLower(req.q), ToLower(v.Name))
    \/ IsSubstring(ToLower(req.q), ToLower(Resolved(categories, v.CategoryID)))
    \/ IsSubstring(ToLower(req.q), ToLower(Resolved(manufacturers, v.ManufacturerID)))

\* C1: for a non-empty q the catalog result (the filtered list, and the list
\* the page is rendered with) is exactly the subsequence of the upstream
\* list, in upstream order, of the vehicles for which lower-cased q is a
\* substring of the lower-cased name, resolved category name or resolved
\* manufacturer name.
C1_SearchResult ==
    (handler = "home" /\ req.q # << >>) =>
        /\ (pc = "render" => filteredCars = SelectSeq(cars, MatchesQuery))
        /\ (body = "page" => data.Cars = SelectSeq(cars, MatchesQuery))

\* A page for q = "b" over two vehicles named "c", the first with an
\* unresolved category and the second matching through its category only.
C1_Witness ==
    /\ handler = "home" /\ body = "page" /\ req.q = <<"b">>
    /\ Len(cars) = 2
    /\ cars[1].Name = <<"c">> /\ cars[2].Name = <<"c">>
    /\ Resolved(categories, cars[1].CategoryID) = << >>
    /\ Resolved(categories, cars[2].CategoryID) = <<"B">>
    /\ data.Cars = <<cars[2]>>

\* C2: for an empty (or absent) q the catalog result equals the upstream
\* vehicle list, element for element and in order, whatever the lookup maps.
C2_EmptyQueryIdentity ==
    (handler = "home" /\ req.q = << >>) =>
        /\ (pc = "render" => filteredCars = cars)
        /\ (body = "page" => data.Cars = cars)

C2_Witness ==
    /\ handler = "home" /\ body = "page" /\ req.q = << >>
    /\ Len(cars) = 2 /\ cars[1] # cars[2]
    /\ categories # << >> /\ manufacturers = << >>
    /\ data.Cars = cars

RelatedOk(rel) ==
    /\ Len(rel) <= 3
    /\ \A i \in DOMAIN rel :
          rel[i].ID # mainCar.ID /\ rel[i].CategoryID = mainCar.CategoryID

IsRelated(c) == c.CategoryID = mainCar.CategoryID /\ c.ID # mainCar.ID

\* C3: at every step of the recommendation scan and at its end the
\* recommendation set never contains a vehicle with the main vehicle's
\* identifier, every member has the main vehicle's categoryId, and its size
\* is at most 3.
C3_RelatedInvariant ==
    handler = "details" =>
        /\ RelatedOk(related)
        /\ (body = "page" => data.MainCar = mainCar /\ RelatedOk(data.Related))

\* A page over a list holding the main vehicle itself and four vehicles that
\* qualify, the main vehicle among the scanned ones.
C3_Witness ==
    /\ handler = "details" /\ body = "page"
    /\ Len(SelectSeq(allCars, IsRelated)) = 4
    /\ \E i \in 1..idx : allCars[i].ID = mainCar.ID
    /\ Len(data.Related) = 3

\* C4: the recommendation list is the first min(3, k) of the k vehicles of
\* the full list that have the main vehicle's category and another
\* identifier, in upstream order; the scan stops at the third one collected.
C4_FirstThreeInOrder ==
    handler = "details" =>
        LET all == SelectSeq(allCars, IsRelated)
            first == SubSeq(all, 1, Min(3, Len(all)))
        IN  /\ (pc = "scan" =>
                  related = SelectSeq(SubSeq(allCars, 1, idx - 1), IsRelated))
            /\ (pc = "render" => related = first)
            /\ ((pc = "render" /\ Len(related) = 3) =>
                  /\ idx <= Len(allCars)
                  /\ related[3] = allCars[idx]
                  /\ Len(SelectSeq(SubSeq(allCars, 1, idx), IsRelated)) = 3)
            /\ (body = "page" => data.Related = first)

\* A page over a list with four qualifying vehicles, the first two distinct
\* and a non-qualifying vehicle in between: the fourth is left out.
C4_Witness ==
    /\ handler = "details" /\ body = "page"
    /\ Len(allCars) = 5 /\ idx = 4
    /\ Len(SelectSeq(allCars, IsRelated)) = 4
    /\ ~IsRelated(allCars[2])
    /\ data.Related = <<allCars[1], allCars[3], allCars[4]>>
    /\ allCars[1] # allCars[3]

\* C5: a comparison request with fewer than 2 id occurrences is answered 400
\* without any upstream call or page; one with 2 or more is never answered
\* 400, however few of them are fetched successfully.
C5_TooFewIds ==
    handler = "compare" =>
        /\ (Len(req.ids) < 2 =>
              /\ pc \in {"start", "done"}
              /\ calls = << >> /\ tmpl = "none"
              /\ (pc = "done" => status = 400 /\ body = "error"))
        /\ (Len(req.ids) >= 2 => status # 400)

\* Two ids supplied, none fetched, and the (empty) comparison page rendered.
C5_Witness ==
    /\ handler = "compare" /\ pc = "done"
    /\ Len(req.ids) = 2
    /\ \A i \in DOMAIN calls : calls[i].res \in Failures
    /\ status = 200 /\ body = "page" /\ data = << >>

ExpectedId(s) ==
    CASE s = <<"1">> -> 1
      [] s = <<"2">> -> 2
      [] s = <<"-", "2">> -> 0 - 2
      [] OTHER -> 0

FetchedCars ==
    LET ok == SelectSeq(calls, LAMBDA c : c.res = "nil")
    IN  [i \in 1..Len(ok) |-> ok[i].car]

\* C6: the comparison page lists exactly the vehicles getVehicleById returned
\* for the supplied id occurrences, in input order, the failed ones omitted;
\* one lookup is made per occurrence and a non-numeric id is looked up as 0.
C6_ComparisonList ==
    handler = "compare" =>
        /\ \A i \in DOMAIN calls :
              /\ i <= Len(req.ids)
              /\ calls[i].op = "fetchCarByID"
              /\ calls[i].arg = ExpectedId(req.ids[i])
        /\ (pc = "loop" => selectedCars = FetchedCars)
        /\ (body = "page" => Len(calls) = Len(req.ids) /\ data = FetchedCars)

\* Ids "2", "1x", "1": the first lookup fails, "1x" is looked up as 0 and
\* found, "1" is found; the page lists the two found, in that order.
C6_Witness ==
    /\ handler = "compare" /\ body = "page"
    /\ req.ids = <<<<"2">>, <<"1", "x">>, <<"1">>>>
    /\ calls[1].res = "status"
    /\ calls[2].arg = 0 /\ calls[2].res = "nil"
    /\ calls[3].res = "nil"
    /\ data = <<calls[2].car, calls[3].car>>
    /\ data[1].ID = 0 /\ data[2].ID = 1

NumericIdStrings == {<<"1">>, <<"2">>, <<"-", "2">>}

\* C7: a detail request whose id is missing or non-numeric is answered 400;
\* one with a numeric id whose single-vehicle lookup fails (transport, decode
\* or non-200 status) is answered 404; no page is rendered in either case.
C7_DetailErrors ==
    (handler = "details" /\ pc = "done") =>
        /\ (req.id \notin NumericIdStrings =>
              status = 400 /\ body = "error" /\ tmpl = "none")
        /\ ((req.id \in NumericIdStrings /\ calls[1].res \in Failures) =>
              status = 404 /\ body = "error" /\ tmpl = "none")

C7_Witness ==
    /\ handler = "details" /\ pc = "done"
    /\ req.id = <<"-", "2">>
    /\ calls[1].arg = 0 - 2 /\ calls[1].res = "decode"
    /\ status = 404

TemplateFailed == tmpl \in {"parseError", "execError"}

MandatoryFetchFailed ==
    /\ handler \in {"home", "details"}
    /\ Len(calls) >= 1
    /\ calls[1].res \in Failures

OptionalFetchFailed(i) ==
    /\ calls[i].res \in Failures
    /\ \/ handler = "home" /\ calls[i].op \in {"fetchCategories", "fetchManufacturers"}
       \/ handler = "details" /\ calls[i].op = "fetchCars"

\* What a vehicle can still match through when a lookup fetch has failed.
MatchesDegraded(v) ==
    \/ IsSubstring(ToLower(req.q), ToLower(v.Name))
    \/ /\ calls[2].res = "nil"
       /\ IsSubstring(ToLower(req.q), ToLower(Resolved(categories, v.CategoryID)))
    \/ /\ calls[3].res = "nil"
       /\ IsSubstring(ToLower(req.q), ToLower(Resolved(manufacturers, v.ManufacturerID)))

\* C9: a failed optional fetch never aborts the request: the handler goes on
\* to the template step and, the template working, renders the page.  On the
\* catalog page the failed lookup list is empty and its references resolve to
\* "", so a vehicle matches a non-empty q only through what still resolves;
\* on the detail page the recommendations are empty and the main vehicle is
\* the one looked up.
C9_OptionalFetches ==
    /\ \A i \in DOMAIN calls :
          (OptionalFetchFailed(i) /\ pc = "done") => tmpl # "none"
    /\ ((\E i \in DOMAIN calls : OptionalFetchFailed(i)) /\ tmpl = "ok") =>
          status = 200 /\ body = "page"
    /\ handler = "home" =>
          /\ ((Len(calls) >= 2 /\ calls[2].res \in Failures) => categories = << >>)
          /\ ((Len(calls) >= 3 /\ calls[3].res \in Failures) => manufacturers = << >>)
          /\ ((body = "page" /\ req.q # << >>) =>
                data.Cars = SelectSeq(cars, MatchesDegraded))
    /\ (handler = "details" /\ Len(calls) = 2 /\ calls[2].res \in Failures) =>
          /\ allCars = << >> /\ related = << >>
          /\ (body = "page" => data.Related = << >> /\ data.MainCar = calls[1].car)

\* The categories fetch fails, the manufacturers fetch succeeds, q = "C": of
\* two vehicles named "Ab" the page lists the one whose manufacturer resolves.
C9_Witness ==
    /\ handler = "home" /\ body = "page" /\ req.q = <<"C">>
    /\ calls[2].res = "transport" /\ calls[3].res = "nil"
    /\ Len(cars) = 2
    /\ cars[1].Name = <<"A", "b">> /\ cars[2].Name = <<"A", "b">>
    /\ Resolved(manufacturers, cars[1].ManufacturerID) = << >>
    /\ data.Cars = <<cars[2]>>

\* C10: in one detail invocation no upstream call precedes the validation of
\* id (400 implies no call); the calls are at most one get-by-id followed by
\* at most one list-all, never two in flight; the list-all call is issued
\* only once the get-by-id call has completed successfully (404 implies no
\* list-all call).
C10_SequentialCalls ==
    handler = "details" =>
        /\ Len(calls) <= 2
        /\ Cardinality(Pending) <= 1
        /\ (status = 400 => calls = << >>)
        /\ (req.id \notin NumericIdStrings => calls = << >>)
        /\ (Len(calls) >= 1 =>
              calls[1].op = "fetchCarByID" /\ calls[1].arg = ExpectedId(req.id))
        /\ (Len(calls) = 2 => calls[2].op = "fetchCars" /\ calls[1].res = "nil")
        /\ (status = 404 => Len(calls) = 1 /\ calls[1].res \in Failures)

\* The list-all round trip is in flight after a successful get-by-id.
C10_Witness ==
    /\ handler = "details"
    /\ Len(calls) = 2
    /\ calls[1].res = "nil" /\ calls[2].res = "pending"
    /\ mainCar = calls[1].car

====
